---- MODULE Spec2Model ----
(***************************************************************************)
(* nifty_oi_alert (src/app.py): a Streamlit script that, on every script   *)
(* run, scans the NIFTY option chain, compares each contract's open        *)
(* interest with the baseline kept in st.session_state and records OI      *)
(* spike alerts in a bounded, de-duplicated ledger.                        *)
(*                                                                         *)
(* One script run (src/app.py:176-201) is one action, ScriptRun.  The wall *)
(* clock (datetime.now(IST)) advances by the environment action Tick.      *)
(* What the provider returns to fyers.quotes and fyers.optionchain is an   *)
(* input of the run.  For what holds between the rows of a scan the same   *)
(* run is also taken line by line (Begin, Row, Commit), its local          *)
(* variables in locals.  For the provider calls of script runs that        *)
(* overlap, each run is taken call by call, its position in api.           *)
(* st.session_state.last_check (display only) and the   *)
(* st.cache_data caches (they only repeat an earlier provider answer) are  *)
(* not part of the state.  Times of day are whole minutes; strike_price    *)
(* arrives as an integer; oi arrives as an integer of either sign, which   *)
(* int() leaves as it is, or as null (NaN in the frame), on which int()    *)
(* raises.  A row whose oi is null is the record without the oi field.     *)
(***************************************************************************)
EXTENDS Integers, Sequences, FiniteSets, TLC

(***************************************************************************)
(* CONFIG, src/app.py:9-12                                                 *)
(***************************************************************************)
OI_SPIKE_THRESHOLD == 500
MIN_BASE_OI == 1000
MAX_ALERTS_TO_KEEP == 50
STRIKE_RANGE_POINTS == 150

(***************************************************************************)
(* Bounds of the model.                                                    *)
(***************************************************************************)
MaxDay == 2
MaxRows == 2
MaxRuns == 2

\* IST calendar dates; NoDate is last_run_date = None (src/app.py:42).
NoDate == 0
Dates == 1..MaxDay

\* Times of day in minutes since midnight: 09:14, 09:15, 15:30, 15:31.
Times == {554, 555, 930, 931}

\* quotes responses: status and last price in tenths of a point.
QuoteError == [s |-> "error", lp10 |-> 0]
DayQuotes == { QuoteError, [s |-> "ok", lp10 |-> 250000] }
FrameQuotes == DayQuotes \cup { [s |-> "ok", lp10 |-> 250605] }

\* A symbol is the sequence of its parts; the second part is the expiry
\* code the provider embeds in it.
SymW == <<"NSE:NIFTY", "W1">>
SymM == <<"NSE:NIFTY", "M1">>

\* expiryData entries: the expiry's calendar day and its display string.
\* The weekly expiry falls on day 1: from day 2 on it is in the past.
ExpW == [expiry |-> 1, date |-> "W1"]
ExpM == [expiry |-> 30, date |-> "M1"]
ExpiryData == <<ExpM, ExpW>>

\* Lexicographic order of the display strings that occur.
DateRank(d) == IF d = "M1" THEN 1 ELSE 2

SeqsUpTo(S, n) == UNION { [1..k -> S] : k \in 0..n }

\* Chain rows of the day-level specifications: one contract, either expiry.
DayRows ==
    [symbol : {SymW, SymM}, strike_price : {25000}, option_type : {"CE"},
     oi : {1000, 6001}]

\* Chain rows of the scan-level specification: two contracts of the weekly
\* expiry; strike 25200 is in range for spot 25060 only.
FrameRows ==
    [symbol : {SymW}, strike_price : {25000}, option_type : {"CE"},
     oi : {900, 1000, 6000, 6001}]
    \cup [symbol : {SymW}, strike_price : {25200}, option_type : {"PE"},
          oi : {1000, 6001}]

\* Chain rows of the feed-level specification: one contract whose OI is any
\* integer the provider may send, or null.
FeedRows ==
    [symbol : {SymW}, strike_price : {25000}, option_type : {"CE"},
     oi : {-5, 1000, 6001}]
    \cup { [symbol |-> SymW, strike_price |-> 25000, option_type |-> "CE"] }

\* Chain rows of the line-by-line specification: the put and the call of one
\* strike, and a row of the call whose OI is null.
LoopRows ==
    [symbol : {SymW}, strike_price : {25000}, option_type : {"PE"},
     oi : {1000, 6001}]
    \cup { [symbol |-> SymW, strike_price |-> 25000, option_type |-> "CE", oi |-> 1000],
           [symbol |-> SymW, strike_price |-> 25000, option_type |-> "CE"] }

\* optionchain responses over a set of rows: a failure, the chains with the
\* expiry data, and the one-row chains without any (then no row can match,
\* whatever the chain).
ChainResponses(R) ==
    { [s |-> "error", optionsChain |-> <<>>, expiryData |-> <<>>] }
    \cup [s : {"ok"}, optionsChain : SeqsUpTo(R, MaxRows), expiryData : {ExpiryData}]
    \cup { [s |-> "ok", optionsChain |-> <<r>>, expiryData |-> <<>>] : r \in R }

DayResponses == ChainResponses(DayRows)
FrameResponses == ChainResponses(FrameRows)
FeedResponses == ChainResponses(FeedRows)
LoopResponses == ChainResponses(LoopRows)

VARIABLES
    today,          \* datetime.now(IST).date()
    now,            \* datetime.now(IST).time(), minutes since midnight
    prev_oi,        \* st.session_state.prev_oi: key -> OI
    alerts,         \* st.session_state.alerts
    warmed_up,      \* st.session_state.warmed_up
    last_run_date,  \* st.session_state.last_run_date
    new_alerts,     \* module-level new_alerts of the last run
    df,             \* the filtered frame the last scan iterated over
    op,             \* history: the last step taken
    did_reset,      \* history: the last run executed the reset
    base_date,      \* history: date on which prev_oi was committed
    invoked,        \* history: per date, what invocations were observed
    resets,         \* history: per date, number of resets executed
    admitted,       \* history: alerts appended to the ledger since the last reset
    fetched,        \* history: the last scan's raw rows matching the expiry / in range
    locals,         \* the scan in progress: its position and local variables
    api             \* the provider calls of concurrent script runs: positions, locks, caches

vars == <<today, now, prev_oi, alerts, warmed_up, last_run_date, new_alerts,
          df, op, did_reset, base_date, invoked, resets, admitted, fetched,
          locals, api>>

\* Everything but api.
session_vars == <<today, now, prev_oi, alerts, warmed_up, last_run_date,
                  new_alerts, df, op, did_reset, base_date, invoked, resets,
                  admitted, fetched, locals>>

(***************************************************************************)
(* HELPERS                                                                 *)
(***************************************************************************)
\* Python round(): nearest integer to n/d, ties to the even one (n >= 0, d > 0).
RoundHalfEven(n, d) ==
    LET q == n \div d
        r == n % d
    IN  IF 2 * r < d THEN q
        ELSE IF 2 * r > d THEN q + 1
        ELSE IF q % 2 = 0 THEN q ELSE q + 1

is_market_open(t) == 555 <= t /\ t <= 930

\* The reset test without the comparison of the dates.
ResetWheneverOpen == is_market_open(now)

ShouldReset == last_run_date # today /\ is_market_open(now)

\* get_nifty_spot: [none |-> TRUE] is the None return.
get_nifty_spot(q) ==
    IF q.s = "ok"
    THEN [none |-> FALSE, v |-> RoundHalfEven(q.lp10, 10)]
    ELSE [none |-> TRUE, v |-> 0]

get_atm(spot) == RoundHalfEven(spot, 50) * 50

\* get_current_weekly_expiry
WeeklyIdx(expiry_list) ==
    { i \in 1..Len(expiry_list) :
        0 <= expiry_list[i].expiry - today /\ expiry_list[i].expiry - today <= 7 }

TupleLess(a, b) ==
    \/ a.expiry < b.expiry
    \/ a.expiry = b.expiry /\ DateRank(a.date) < DateRank(b.date)

get_current_weekly_expiry(expiry_list) ==
    IF Len(expiry_list) = 0 THEN "Unknown"
    ELSE LET w == WeeklyIdx(expiry_list)
         IN  IF w # {}
             THEN LET i == CHOOSE i \in w :
                             \A j \in w : ~TupleLess(expiry_list[j], expiry_list[i])
                  IN  expiry_list[i].date
             ELSE expiry_list[1].date

\* str.contains(expiry, regex=False)
Contains(symbol, e) == \E i \in 1..Len(symbol) : symbol[i] = e

FilterExpiry(raw, e) ==
    LET Match(r) == Contains(r.symbol, e)
    IN  SelectSeq(raw, Match)

InRange(r, atm) ==
    /\ r.strike_price >= atm - STRIKE_RANGE_POINTS
    /\ r.strike_price <= atm + STRIKE_RANGE_POINTS

FilterStrikes(rows, atm) ==
    LET Keep(r) == InRange(r, atm)
    IN  SelectSeq(rows, Keep)

FilterFrame(raw, e, atm) == FilterStrikes(FilterExpiry(raw, e), atm)

(***************************************************************************)
(* CORE: scan_for_oi_spikes                                                *)
(***************************************************************************)
EmptyMap == [k \in {} |-> 0]

\* key = f"{opt_type}_{strike}": the pair it is built from.
Key(r) == <<r.option_type, r.strike_price>>

\* A lookup whose default is MIN_BASE_OI.
GetOrMinBase(base, k) == IF k \in DOMAIN base THEN base[k] ELSE MIN_BASE_OI

\* st.session_state.prev_oi.get(key, 0)
Get(base, k) == IF k \in DOMAIN base THEN base[k] ELSE 0

\* current_oi[key] = oi
SetOI(current_oi, k, oi) ==
    [x \in DOMAIN current_oi \cup {k} |-> IF x = k THEN oi ELSE current_oi[x]]

\* The threshold test with >= for >.
PctExceedsOrEqual(oi, prev) ==
    ((oi - prev) * 100) \div prev >= OI_SPIKE_THRESHOLD

\* pct = (oi - prev) / prev * 100; pct > OI_SPIKE_THRESHOLD, by quotient and
\* remainder of the exact division (prev > 0).  The double the code computes
\* decides the same way for every OI below 2^51.
PctExceeds(oi, prev) ==
    LET q == ((oi - prev) * 100) \div prev
        r == ((oi - prev) * 100) % prev
    IN  q > OI_SPIKE_THRESHOLD \/ (q = OI_SPIKE_THRESHOLD /\ r > 0)

\* f"{pct:.1f}": pct in tenths, rounded to the nearest.
Pct10(oi, prev) == RoundHalfEven((oi - prev) * 1000, prev)

\* "msg": f"{opt_type} {strike} | +{pct:.1f}% | {prev:,} -> {oi:,}", as the
\* tuple of the values it prints.
Msg(r, prev) ==
    [opt |-> r.option_type, strike |-> r.strike_price,
     pct10 |-> Pct10(r.oi, prev), prev |-> prev, oi |-> r.oi]

Alert(r, prev) == [time |-> now, msg |-> Msg(r, prev)]

\* The row test of the loop.
IsSpike(warm, prev, oi) ==
    warm /\ prev >= MIN_BASE_OI /\ oi > prev /\ PctExceeds(oi, prev)

\* int(row.get("oi", 0)) returns: the cell is a number.
Parses(row) == "oi" \in DOMAIN row

\* for _, row in df.iterrows(): ...  from row i on.  raised: int() raised
\* ValueError on a row and the loop was left by the exception.
RECURSIVE Iterrows(_, _, _, _, _, _)
Iterrows(rows, i, warm, base, current_oi, found) ==
    IF i > Len(rows)
    THEN [current_oi |-> current_oi, new_alerts |-> found, raised |-> FALSE]
    ELSE IF ~Parses(rows[i])
    THEN [current_oi |-> current_oi, new_alerts |-> found, raised |-> TRUE]
    ELSE LET row == rows[i]
             prev == Get(base, Key(row))
         IN  Iterrows(rows, i + 1, warm, base,
                      SetOI(current_oi, Key(row), row.oi),
                      IF IsSpike(warm, prev, row.oi)
                      THEN Append(found, Alert(row, prev))
                      ELSE found)

\* A commit that updates the old baseline instead of replacing it.
MergedBaseline(base, current_oi) ==
    [k \in DOMAIN base \cup DOMAIN current_oi |->
        IF k \in DOMAIN current_oi THEN current_oi[k] ELSE base[k]]

\* st.session_state.prev_oi = current_oi
NewBaseline(base, current_oi) == current_oi

\* The scan with the warm-up flag neither read nor set.
DetectNoWarmup(rows, warm, base) ==
    LET res == Iterrows(rows, 1, TRUE, base, EmptyMap, <<>>)
    IN  [prev_oi |-> NewBaseline(base, res.current_oi), warmed_up |-> warm,
         new_alerts |-> res.new_alerts, op |-> "scan"]

\* An exception leaves scan_for_oi_spikes: nothing is committed, nothing is
\* returned.
Raised(warm, base) ==
    [prev_oi |-> base, warmed_up |-> warm, new_alerts |-> <<>>, op |-> "raised"]

\* The loop over the filtered frame and the commit that follows it.
Detect(rows, warm, base) ==
    LET res == Iterrows(rows, 1, warm, base, EmptyMap, <<>>)
    IN  IF res.raised THEN Raised(warm, base)
        ELSE IF ~warm
        THEN [prev_oi |-> NewBaseline(base, res.current_oi), warmed_up |-> TRUE,
              new_alerts |-> <<>>, op |-> "baseline"]
        ELSE [prev_oi |-> NewBaseline(base, res.current_oi), warmed_up |-> warm,
              new_alerts |-> res.new_alerts, op |-> "scan"]

\* An early return: nothing is committed.
Returned(how, warm, base) ==
    [prev_oi |-> base, warmed_up |-> warm, new_alerts |-> <<>>, op |-> how]

\* The empty-frame check after the commit instead of before it.
NoMatchingStrikesCommits(warm, base) ==
    [prev_oi |-> EmptyMap, warmed_up |-> TRUE, new_alerts |-> <<>>,
     op |-> "no_strikes"]

NoMatchingStrikes(warm, base) == Returned("no_strikes", warm, base)

NoFetched == [match |-> 0, range |-> 0]

\* scan_for_oi_spikes after reset_on_new_trading_day, on the session state
\* (warm, base) and the provider's answers q and resp.  st is what the scan
\* leaves in the session state and returns (op names the return taken); df
\* and fetched record the frame.
scan_for_oi_spikes(q, resp, warm, base) ==
    LET spot == get_nifty_spot(q)
        atm == get_atm(spot.v)
        raw == resp.optionsChain
        e == get_current_weekly_expiry(resp.expiryData)
        frame == FilterFrame(raw, e, atm)
        seen == [match |-> Len(FilterExpiry(raw, e)),
                 range |-> Len(FilterStrikes(raw, atm))]
    IN  IF spot.none
        THEN [st |-> Returned("spot_failed", warm, base), spot |-> spot,
              df |-> <<>>, fetched |-> NoFetched]
        ELSE IF resp.s # "ok"
        THEN [st |-> Returned("chain_failed", warm, base), spot |-> spot,
              df |-> <<>>, fetched |-> NoFetched]
        ELSE IF Len(raw) = 0
        THEN [st |-> Returned("empty_chain", warm, base), spot |-> spot,
              df |-> <<>>, fetched |-> NoFetched]
        ELSE IF Len(frame) = 0
        THEN [st |-> NoMatchingStrikes(warm, base), spot |-> spot,
              df |-> frame, fetched |-> seen]
        ELSE [st |-> Detect(frame, warm, base), spot |-> spot,
              df |-> frame, fetched |-> seen]

(***************************************************************************)
(* UI: the alert merge                                                     *)
(***************************************************************************)
Msgs(ledger) == { ledger[i].msg : i \in 1..Len(ledger) }

\* An admission test that lets every alert in.
AdmitsAll(ledger, a) == TRUE

\* if a["msg"] not in [x["msg"] for x in st.session_state.alerts]
Admits(ledger, a) == a.msg \notin Msgs(ledger)

\* for a in new_alerts: ... append
RECURSIVE AppendNew(_, _, _)
AppendNew(ledger, incoming, i) ==
    IF i > Len(incoming) THEN ledger
    ELSE AppendNew(IF Admits(ledger, incoming[i])
                   THEN Append(ledger, incoming[i])
                   ELSE ledger,
                   incoming, i + 1)

\* A truncation that is not applied, and one that keeps the oldest.
KeepAll(ledger) == ledger

KeepFirst(ledger) ==
    IF Len(ledger) <= MAX_ALERTS_TO_KEEP THEN ledger
    ELSE SubSeq(ledger, 1, MAX_ALERTS_TO_KEEP)

\* st.session_state.alerts[-MAX_ALERTS_TO_KEEP:]
Truncate(ledger) ==
    IF Len(ledger) <= MAX_ALERTS_TO_KEEP THEN ledger
    ELSE SubSeq(ledger, Len(ledger) - MAX_ALERTS_TO_KEEP + 1, Len(ledger))

(***************************************************************************)
(* Actions                                                                 *)
(***************************************************************************)
\* No scan is in progress.
Idle == [pc |-> "idle", i |-> 0, current_oi |-> EmptyMap, found |-> <<>>, spot |-> 0]

\* Script runs that execute at the same time, one thread each; the two
\* cached functions that call the provider.
Runs == 1..MaxRuns
Fns == {"get_nifty_spot", "fetch_option_chain"}

\* No run has started: nothing is cached, no lock is held.
NoCalls ==
    [pc |-> [r \in Runs |-> <<"script", "start">>],
     api_lock |-> [r \in Runs |-> 0],
     cached |-> [f \in Fns |-> FALSE],
     computing |-> [f \in Fns |-> 0]]

Init ==
    /\ today = 1
    /\ now \in Times
    /\ prev_oi = EmptyMap
    /\ alerts = <<>>
    /\ warmed_up = FALSE
    /\ last_run_date = NoDate
    /\ new_alerts = <<>>
    /\ df = <<>>
    /\ op = "init"
    /\ did_reset = FALSE
    /\ base_date = NoDate
    /\ invoked = [any |-> {}, open |-> {}]
    /\ resets = [d \in Dates |-> 0]
    /\ admitted = <<>>
    /\ fetched = NoFetched
    /\ locals = Idle
    /\ api = NoCalls

\* The wall clock moves on.
Tick ==
    /\ \E d \in Dates, t \in Times :
          /\ (d = today /\ t > now) \/ d > today
          /\ today' = d
          /\ now' = t
    /\ op' = "tick"
    /\ did_reset' = FALSE
    /\ UNCHANGED <<prev_oi, alerts, warmed_up, last_run_date, new_alerts,
                   df, base_date, invoked, resets, admitted, fetched, locals,
                   api>>

\* The reset with the last_run_date assignment missing.
reset_without_date ==
    IF ShouldReset
    THEN [prev_oi |-> EmptyMap, warmed_up |-> FALSE, alerts |-> <<>>,
          last_run_date |-> last_run_date]
    ELSE [prev_oi |-> prev_oi, warmed_up |-> warmed_up, alerts |-> alerts,
          last_run_date |-> last_run_date]

\* The reset without the assignment that empties the ledger.
reset_keeps_alerts ==
    IF ShouldReset
    THEN [prev_oi |-> EmptyMap, warmed_up |-> FALSE, alerts |-> alerts,
          last_run_date |-> today]
    ELSE [prev_oi |-> prev_oi, warmed_up |-> warmed_up, alerts |-> alerts,
          last_run_date |-> last_run_date]

\* reset_on_new_trading_day: the session state it leaves.
reset_on_new_trading_day ==
    IF ShouldReset
    THEN [prev_oi |-> EmptyMap, warmed_up |-> FALSE, alerts |-> <<>>,
          last_run_date |-> today]
    ELSE [prev_oi |-> prev_oi, warmed_up |-> warmed_up, alerts |-> alerts,
          last_run_date |-> last_run_date]

\* for a in new_alerts: ...; alerts = alerts[-MAX_ALERTS_TO_KEEP:]
MergeAlerts(ledger, incoming) == Truncate(AppendNew(ledger, incoming, 1))

\* One script run: the scan (src/app.py:176) and the merge of its alerts.
\* An exception raised by the scan ends the run at line 176.
ScriptRun(q, resp) ==
    \E rs \in {reset_on_new_trading_day} :
    \E scan \in {scan_for_oi_spikes(q, resp, rs.warmed_up, rs.prev_oi)} :
    \E grown \in {AppendNew(rs.alerts, scan.st.new_alerts, 1)} :
        /\ locals = Idle
        /\ prev_oi' = scan.st.prev_oi
        /\ warmed_up' = scan.st.warmed_up
        /\ last_run_date' = rs.last_run_date
        /\ new_alerts' = scan.st.new_alerts
        /\ df' = scan.df
        /\ fetched' = scan.fetched
        /\ IF scan.st.op # "raised" /\ ~scan.spot.none /\ scan.spot.v # 0
           THEN /\ alerts' = MergeAlerts(rs.alerts, scan.st.new_alerts)
                /\ admitted' = (IF ShouldReset THEN <<>> ELSE admitted)
                                  \o SubSeq(grown, Len(rs.alerts) + 1, Len(grown))
           ELSE /\ alerts' = rs.alerts
                /\ admitted' = IF ShouldReset THEN <<>> ELSE admitted
        /\ op' = scan.st.op
        /\ did_reset' = ShouldReset
        /\ base_date' = IF scan.st.op \in {"baseline", "scan"} THEN today
                        ELSE IF ShouldReset THEN NoDate ELSE base_date
        /\ invoked' = [any |-> invoked.any \cup {today},
                       open |-> IF is_market_open(now)
                                THEN invoked.open \cup {today} ELSE invoked.open]
        /\ resets' = IF ShouldReset
                     THEN [resets EXCEPT ![today] = IF @ < 2 THEN @ + 1 ELSE @]
                     ELSE resets
        /\ UNCHANGED <<today, now, locals, api>>

\* A script run with the provider's answers: the chain is fetched only
\* when the spot was, and holds rows only when it was fetched.
Run(Q, Resp) ==
    \E q \in Q, resp \in Resp :
        /\ q.s # "ok" => resp.s # "ok"
        /\ ScriptRun(q, resp)

Next ==
    \/ Tick
    \/ Run(DayQuotes, DayResponses)

Spec == Init /\ [][Next]_vars

\* The scan on a rich chain, at one market-hours instant.
InitScan == Init /\ now = 555

NextScan == Run(FrameQuotes, FrameResponses)

SpecScan == InitScan /\ [][NextScan]_vars

\* The scan on whatever OI the feed delivers, at one market-hours instant.
NextFeed == Run(DayQuotes, FeedResponses)

SpecFeed == InitScan /\ [][NextFeed]_vars

(***************************************************************************)
(* The script run line by line                                             *)
(***************************************************************************)
\* Lines 112-144 of a run: the reset, the fetches and the filters.  A scan
\* that returns early ends the run in this step; otherwise the loop is
\* entered with current_oi = {} and new_alerts = [].
Begin(q, resp) ==
    \E rs \in {reset_on_new_trading_day} :
    \E scan \in {scan_for_oi_spikes(q, resp, rs.warmed_up, rs.prev_oi)} :
        IF scan.st.op \in {"spot_failed", "chain_failed", "empty_chain", "no_strikes"}
        THEN ScriptRun(q, resp)
        ELSE /\ locals = Idle
             /\ locals' = [pc |-> "loop", i |-> 1, current_oi |-> EmptyMap,
                           found |-> <<>>, spot |-> scan.spot.v]
             /\ prev_oi' = rs.prev_oi
             /\ warmed_up' = rs.warmed_up
             /\ alerts' = rs.alerts
             /\ last_run_date' = rs.last_run_date
             /\ new_alerts' = <<>>
             /\ df' = scan.df
             /\ fetched' = scan.fetched
             /\ admitted' = IF ShouldReset THEN <<>> ELSE admitted
             /\ op' = "begin"
             /\ did_reset' = ShouldReset
             /\ base_date' = IF ShouldReset THEN NoDate ELSE base_date
             /\ invoked' = [any |-> invoked.any \cup {today},
                            open |-> IF is_market_open(now)
                                     THEN invoked.open \cup {today} ELSE invoked.open]
             /\ resets' = IF ShouldReset
                          THEN [resets EXCEPT ![today] = IF @ < 2 THEN @ + 1 ELSE @]
                          ELSE resets
             /\ UNCHANGED <<today, now, api>>

\* The loop body with the baseline updated in place, row by row.
RowInPlace ==
    /\ locals.pc = "loop"
    /\ locals.i <= Len(df)
    /\ Parses(df[locals.i])
    /\ \E row \in {df[locals.i]} :
       \E prev \in {Get(prev_oi, Key(row))} :
          /\ locals' = [locals EXCEPT
                          !.i = @ + 1,
                          !.current_oi = SetOI(@, Key(row), row.oi),
                          !.found = IF IsSpike(warmed_up, prev, row.oi)
                                    THEN Append(@, Alert(row, prev)) ELSE @]
          /\ prev_oi' = SetOI(prev_oi, Key(row), row.oi)
          /\ op' = "row"
    /\ UNCHANGED <<today, now, alerts, warmed_up, last_run_date,
                   new_alerts, df, did_reset, base_date, invoked, resets,
                   admitted, fetched, api>>

\* Lines 146-162 for the row at locals.i: an OI that does not parse ends the
\* run with the exception; otherwise the row is recorded in current_oi and
\* compared with st.session_state.prev_oi.
Row ==
    /\ locals.pc = "loop"
    /\ locals.i <= Len(df)
    /\ IF ~Parses(df[locals.i])
       THEN /\ locals' = Idle
            /\ op' = "raised"
       ELSE \E row \in {df[locals.i]} :
            \E prev \in {Get(prev_oi, Key(row))} :
               /\ locals' = [locals EXCEPT
                               !.i = @ + 1,
                               !.current_oi = SetOI(@, Key(row), row.oi),
                               !.found = IF IsSpike(warmed_up, prev, row.oi)
                                         THEN Append(@, Alert(row, prev)) ELSE @]
               /\ op' = "row"
    /\ UNCHANGED <<today, now, prev_oi, alerts, warmed_up, last_run_date,
                   new_alerts, df, did_reset, base_date, invoked, resets,
                   admitted, fetched, api>>

\* Lines 164-173, the return to line 176 and the merge of lines 178-189.
Commit ==
    /\ locals.pc = "loop"
    /\ locals.i > Len(df)
    /\ \E returned \in {IF warmed_up THEN locals.found ELSE <<>>} :
       \E grown \in {AppendNew(alerts, returned, 1)} :
          /\ prev_oi' = NewBaseline(prev_oi, locals.current_oi)
          /\ warmed_up' = TRUE
          /\ new_alerts' = returned
          /\ IF locals.spot # 0
             THEN /\ alerts' = MergeAlerts(alerts, returned)
                  /\ admitted' = admitted \o SubSeq(grown, Len(alerts) + 1, Len(grown))
             ELSE UNCHANGED <<alerts, admitted>>
          /\ op' = IF warmed_up THEN "scan" ELSE "baseline"
    /\ base_date' = today
    /\ locals' = Idle
    /\ UNCHANGED <<today, now, last_run_date, df, did_reset, invoked, resets,
                   fetched, api>>

NextRows ==
    \/ \E q \in DayQuotes, resp \in LoopResponses :
          /\ q.s # "ok" => resp.s # "ok"
          /\ Begin(q, resp)
    \/ Row
    \/ Commit

SpecRows == InitScan /\ [][NextRows]_vars

\* A session whose ledger is nearly or exactly full: earlier in the day k
\* distinct spikes of the PE 25000 contract were recorded.
EarlierAlert(i) ==
    [time |-> 555,
     msg |-> Msg([option_type |-> "PE", strike_price |-> 25000, oi |-> 10000 + i],
                 1000 + i)]

FullLedger(k) == [i \in 1..k |-> EarlierAlert(i)]

InitLedger ==
    /\ today = 1
    /\ now \in {555, 930}
    /\ prev_oi = [k \in {<<"CE", 25000>>} |-> 1000]
    /\ \E k \in {MAX_ALERTS_TO_KEEP - 1, MAX_ALERTS_TO_KEEP} : alerts = FullLedger(k)
    /\ admitted = alerts
    /\ warmed_up = TRUE
    /\ last_run_date = 1
    /\ new_alerts = <<>>
    /\ df = <<>>
    /\ op = "init"
    /\ did_reset = FALSE
    /\ base_date = 1
    /\ invoked = [any |-> {1}, open |-> {1}]
    /\ resets = [d \in Dates |-> IF d = 1 THEN 1 ELSE 0]
    /\ fetched = NoFetched
    /\ locals = Idle
    /\ api = NoCalls

SpecLedger == InitLedger /\ [][Next]_vars

(***************************************************************************)
(* The provider calls of concurrent script runs                            *)
(***************************************************************************)
\* The lock the functions of run r use: the global api_lock of the module
\* namespace the run executes in, the one its own line 18 assigned.
LockOf(r) == r

\* Where a run goes when f returns: after get_nifty_spot to
\* fetch_option_chain, or to the end when the spot is None; after
\* fetch_option_chain to the end.
After(f) ==
    IF f = "get_nifty_spot"
    THEN {<<"fetch_option_chain", "call">>, <<"script", "done">>}
    ELSE {<<"script", "done">>}

\* A script run starts: api_lock = threading.Lock()
Start(r) ==
    /\ api.pc[r] = <<"script", "start">>
    /\ api' = [api EXCEPT !.pc[r] = <<"get_nifty_spot", "call">>,
                          !.api_lock[r] = 0]
    /\ UNCHANGED session_vars

\* st.cache_data holds an unexpired value of f: the body is not executed.
Hit(r, f) ==
    /\ api.pc[r] = <<f, "call">>
    /\ api.cached[f]
    /\ \E next \in After(f) : api' = [api EXCEPT !.pc[r] = next]
    /\ UNCHANGED session_vars

\* st.cache_data holds no value of f: the body is executed, by one thread
\* at a time for one cached function.
Miss(r, f) ==
    /\ api.pc[r] = <<f, "call">>
    /\ ~api.cached[f]
    /\ api.computing[f] = 0
    /\ api' = [api EXCEPT !.pc[r] = <<f, "lock">>, !.computing[f] = r]
    /\ UNCHANGED session_vars

\* with api_lock:
Acquire(r, f) ==
    /\ api.pc[r] = <<f, "lock">>
    /\ api.api_lock[LockOf(r)] = 0
    /\ api' = [api EXCEPT !.pc[r] = <<f, "sleep">>, !.api_lock[LockOf(r)] = r]
    /\ UNCHANGED session_vars

\* time.sleep(0.6) ends and the request goes out: fyers.quotes(...) or
\* fyers.optionchain(...)
Request(r, f) ==
    /\ api.pc[r] = <<f, "sleep">>
    /\ api' = [api EXCEPT !.pc[r] = <<f, "request">>]
    /\ UNCHANGED session_vars

\* The provider answers, the function returns (the with block releases the
\* lock) and st.cache_data stores what it returned.
Return(r, f) ==
    /\ api.pc[r] = <<f, "request">>
    /\ \E next \in After(f) :
          api' = [api EXCEPT !.pc[r] = next,
                             !.api_lock[LockOf(r)] = 0,
                             !.computing[f] = 0,
                             !.cached[f] = TRUE]
    /\ UNCHANGED session_vars

\* The session's script runs again.
Rerun(r) ==
    /\ api.pc[r] = <<"script", "done">>
    /\ api' = [api EXCEPT !.pc[r] = <<"script", "start">>]
    /\ UNCHANGED session_vars

\* The ttl of the cached value of f runs out.
Expire(f) ==
    /\ api.cached[f]
    /\ api' = [api EXCEPT !.cached[f] = FALSE]
    /\ UNCHANGED session_vars

NextThreads ==
    \/ \E r \in Runs : Start(r)
    \/ \E r \in Runs, f \in Fns : Hit(r, f)
    \/ \E r \in Runs, f \in Fns : Miss(r, f)
    \/ \E r \in Runs, f \in Fns : Acquire(r, f)
    \/ \E r \in Runs, f \in Fns : Request(r, f)
    \/ \E r \in Runs, f \in Fns : Return(r, f)
    \/ \E r \in Runs : Rerun(r)
    \/ \E f \in Fns : Expire(f)

SpecThreads == InitScan /\ [][NextThreads]_vars

(***************************************************************************)
(* Properties                                                              *)
(***************************************************************************)
FailOps == {"spot_failed", "chain_failed", "empty_chain", "no_strikes"}
CommitOps == {"baseline", "scan"}
RunOps == FailOps \cup CommitOps

Range(s) == { s[i] : i \in 1..Len(s) }

\* C1: a script run whose scan sees warmed_up false (after the reset step)
\* returns no alert and appends nothing to the alert ledger.
C1_NoAlertBeforeWarmup ==
    [][ (op' \in RunOps /\ ~(warmed_up /\ ~ShouldReset))
          => /\ new_alerts' = <<>>
             /\ alerts' = IF ShouldReset THEN <<>> ELSE alerts ]_vars

\* The first scan after a reset committed a baseline holding a large OI and
\* produced no alert.
C1_Witness ==
    /\ op = "baseline"
    /\ did_reset
    /\ new_alerts = <<>>
    /\ alerts = <<>>
    /\ \E k \in DOMAIN prev_oi : prev_oi[k] = 6001

\* C2: in a warmed-up scan a row of the filtered frame yields an alert iff
\* prior >= MIN_BASE_OI, oi > prior and (oi - prior) * 100 >
\* OI_SPIKE_THRESHOLD * prior, prior being the stored OI of its key or 0;
\* each such row yields one alert.
SpikeCondition(prior, oi) ==
    /\ prior >= MIN_BASE_OI
    /\ oi > prior
    /\ (oi - prior) * 100 > OI_SPIKE_THRESHOLD * prior

C2_AlertIffSpike ==
    [][ op' = "scan" =>
          LET prior(i) == IF Key(df'[i]) \in DOMAIN prev_oi
                          THEN prev_oi[Key(df'[i])] ELSE 0
              emitted(i) ==
                  \E j \in 1..Len(new_alerts') :
                      /\ new_alerts'[j].msg.opt = df'[i].option_type
                      /\ new_alerts'[j].msg.strike = df'[i].strike_price
                      /\ new_alerts'[j].msg.oi = df'[i].oi
                      /\ new_alerts'[j].msg.prev = prior(i)
          IN  /\ \A i \in 1..Len(df') :
                    emitted(i) <=> SpikeCondition(prior(i), df'[i].oi)
              /\ Len(new_alerts') =
                    Cardinality({ i \in 1..Len(df') :
                                    SpikeCondition(prior(i), df'[i].oi) }) ]_vars

\* Two rows of one contract with baseline 1000: OI 6000 gave no alert, OI
\* 6001 gave the only one.
C2_Witness ==
    /\ op = "scan"
    /\ Len(df) = 2
    /\ Key(df[1]) = Key(df[2])
    /\ df[1].oi = 6000
    /\ df[2].oi = 6001
    /\ Len(new_alerts) = 1
    /\ new_alerts[1].msg.prev = 1000
    /\ new_alerts[1].msg.oi = 6001

C4_NoAlertFromEarlierDateBaseline ==
    [][ (op' = "scan" /\ new_alerts' # <<>>) => base_date = today ]_vars

\* C5 as stated: a run that ends on a failure path leaves prev_oi, alerts and
\* warmed_up as they were when it began.
C5_FailureLeavesStateUnchanged ==
    [][ op' \in FailOps => UNCHANGED <<prev_oi, alerts, warmed_up>> ]_vars

\* C5 as amended: a run that ends on a failure path leaves prev_oi, alerts
\* and warmed_up as reset_on_new_trading_day left them at its start: cleared
\* when the reset fired, and as they were when the run began otherwise.
C5_FailureLeavesStateAsAfterReset ==
    [][ op' \in FailOps =>
          <<prev_oi', alerts', warmed_up'>> =
              IF ShouldReset THEN <<EmptyMap, <<>>, FALSE>>
              ELSE <<prev_oi, alerts, warmed_up>> ]_vars

\* A failed run without reset that found and left a baseline and a ledger.
C5_Witness ==
    /\ op = "no_strikes"
    /\ ~did_reset
    /\ warmed_up
    /\ prev_oi # EmptyMap
    /\ alerts # <<>>

\* C6: the alert ledger holds at most MAX_ALERTS_TO_KEEP entries.
C6_LedgerBounded == Len(alerts) <= MAX_ALERTS_TO_KEEP

\* A merge into a full ledger evicted an entry.
C6_Witness ==
    /\ op = "scan"
    /\ Len(admitted) > MAX_ALERTS_TO_KEEP
    /\ Len(alerts) = MAX_ALERTS_TO_KEEP

\* C7: the ledger is the last MAX_ALERTS_TO_KEEP of the alerts admitted since
\* the last reset, in the order of their admission.
C7_LedgerIsLastAdmitted ==
    LET n == Len(admitted)
        m == IF n <= MAX_ALERTS_TO_KEEP THEN n ELSE MAX_ALERTS_TO_KEEP
    IN  /\ Len(alerts) = m
        /\ \A i \in 1..m : alerts[i] = admitted[n - m + i]

\* The 51st alert was admitted: it is last in the ledger, the first one is
\* gone.
C7_Witness ==
    /\ Len(admitted) = MAX_ALERTS_TO_KEEP + 1
    /\ alerts[MAX_ALERTS_TO_KEEP] = admitted[MAX_ALERTS_TO_KEEP + 1]
    /\ alerts[MAX_ALERTS_TO_KEEP].msg.opt = "CE"
    /\ alerts[1] = admitted[2]
    /\ admitted[1] \notin Range(alerts)

\* C8: no two entries of the ledger have the same message.
C8_NoDuplicateMessages ==
    \A i, j \in 1..Len(alerts) : i # j => alerts[i].msg # alerts[j].msg

\* A batch of two alerts with the message of an older entry: neither was
\* appended.
C8_Witness ==
    /\ op = "scan"
    /\ Len(new_alerts) = 2
    /\ Len(alerts) = 1
    /\ new_alerts[1].msg = alerts[1].msg
    /\ new_alerts[2].msg = alerts[1].msg
    /\ new_alerts[1].time # alerts[1].time

\* C9: after a scan that commits, prev_oi maps exactly the keys of the
\* filtered frame, each to the OI of its last row.
C9_BaselineIsSnapshot ==
    op \in CommitOps =>
        /\ DOMAIN prev_oi = { Key(df[i]) : i \in 1..Len(df) }
        /\ \A i \in 1..Len(df) :
              (\A j \in (i + 1)..Len(df) : Key(df[j]) # Key(df[i]))
                  => prev_oi[Key(df[i])] = df[i].oi

\* A scan fired an alert, stored the new OI, and dropped the key of an
\* earlier alert that is no longer in the frame.
C9_Witness ==
    /\ op = "scan"
    /\ new_alerts # <<>>
    /\ \E k \in DOMAIN prev_oi : prev_oi[k] = 6001
    /\ \E i \in 1..Len(alerts) :
          <<alerts[i].msg.opt, alerts[i].msg.strike>> \notin DOMAIN prev_oi

\* C10: a scan whose chain has no row matching the expiry but has rows in the
\* strike range commits a baseline.
C10_FallbackToUnfilteredChain ==
    (op \in {"no_strikes"} \cup CommitOps /\ fetched.match = 0 /\ fetched.range > 0)
        => op \in CommitOps

\* C11: every OI stored in the baseline is >= 0.
C11_BaselineNonNegative == \A k \in DOMAIN prev_oi : prev_oi[k] >= 0

\* C12: a scan whose filtered frame holds a row with an unparsable OI
\* completes and commits the baseline of the well-formed rows: each of their
\* keys, with the OI of its last well-formed row.
C12_MalformedRowDropped ==
    (op \in RunOps \cup {"raised"} /\ \E i \in 1..Len(df) : ~Parses(df[i]))
        => /\ op \in CommitOps
           /\ DOMAIN prev_oi = { Key(df[i]) : i \in { j \in 1..Len(df) : Parses(df[j]) } }
           /\ \A i \in 1..Len(df) :
                 (/\ Parses(df[i])
                  /\ \A j \in (i + 1)..Len(df) :
                        Parses(df[j]) => Key(df[j]) # Key(df[i]))
                     => prev_oi[Key(df[i])] = df[i].oi

\* C13: a committing scan that follows a committing scan without a reset and
\* iterates over the same frame returns no alert and leaves prev_oi as the
\* first one committed it.
C13_RepeatedSnapshotIsSilent ==
    [][ (op \in CommitOps /\ op' \in CommitOps /\ df' = df /\ ~ShouldReset)
          => /\ new_alerts' = <<>>
             /\ prev_oi' = prev_oi ]_vars

\* C14: on a date on which the reset has already run, reset_on_new_trading_day
\* returns prev_oi, alerts, warmed_up and last_run_date as it found them; no
\* date sees a second reset.
C14_ResetIsIdempotent ==
    /\ resets[today] >= 1 =>
          reset_on_new_trading_day =
              [prev_oi |-> prev_oi, warmed_up |-> warmed_up, alerts |-> alerts,
               last_run_date |-> last_run_date]
    /\ \A d \in Dates : resets[d] <= 1

\* A later run of a date that had its reset, inside market hours: the
\* baseline and the ledger built since the reset are still there.
C14_Witness ==
    /\ op \in RunOps
    /\ ~did_reset
    /\ is_market_open(now)
    /\ resets[today] = 1
    /\ last_run_date = today
    /\ warmed_up
    /\ prev_oi # EmptyMap
    /\ alerts # <<>>

\* C16: no step of a scan leaves prev_oi partly overwritten.  A step
\* changes prev_oi only by emptying it in the reset, before any row is read,
\* or by the commit after the last row, which stores the whole map of the
\* frame; from one row to the next, and when a row raises, prev_oi is the
\* baseline the scan began with.
C16_BaselineReplacedInOneStep ==
    [][ \/ prev_oi' = prev_oi
        \/ /\ locals.pc = "idle"
           /\ did_reset'
           /\ prev_oi' = EmptyMap
        \/ /\ locals'.pc = "idle"
           /\ op' \in CommitOps
           /\ DOMAIN prev_oi' = { Key(df'[i]) : i \in 1..Len(df') }
           /\ \A i \in 1..Len(df') :
                 (\A j \in (i + 1)..Len(df') : Key(df'[j]) # Key(df'[i]))
                     => prev_oi'[Key(df'[i])] = df'[i].oi ]_vars

\* Between the two rows of a frame: the first row's OI 6001 is in current_oi
\* and has alerted, prev_oi still holds 1000 for its key.
C16_Witness ==
    /\ locals.pc = "loop"
    /\ locals.i = 2
    /\ Len(df) = 2
    /\ Key(df[1]) \in DOMAIN prev_oi
    /\ prev_oi[Key(df[1])] = 1000
    /\ locals.current_oi[Key(df[1])] = 6001
    /\ Len(locals.found) = 1

\* C17: every alert a scan has found is for a key of the prev_oi it reads,
\* the map the preceding committing scan stored.
C17_NoAlertForUncommittedKey ==
    locals.pc = "loop" =>
        \A j \in 1..Len(locals.found) :
            <<locals.found[j].msg.opt, locals.found[j].msg.strike>> \in DOMAIN prev_oi

\* PE 25000 alerted at an earlier scan and then left the frame and the
\* baseline; it is back with OI 6001 and the loop has ended without an alert
\* for it.
C17_Witness ==
    /\ locals.pc = "loop"
    /\ locals.i > Len(df)
    /\ warmed_up
    /\ \E i \in 1..Len(alerts) : alerts[i].msg.opt = "PE"
    /\ <<"PE", 25000>> \notin DOMAIN prev_oi
    /\ \E k \in DOMAIN prev_oi : prev_oi[k] >= MIN_BASE_OI
    /\ \E i \in 1..Len(df) : Key(df[i]) = <<"PE", 25000>> /\ df[i].oi = 6001
    /\ \A j \in 1..Len(locals.found) : locals.found[j].msg.opt # "PE"

\* C18: a script run that ends with warmed_up false ends with prev_oi and
\* the ledger empty; warmed_up turns true only in a run whose scan commits,
\* and turns false only in a run that executes the reset.
C18_WarmupGuardsState ==
    [][ /\ (op' \in RunOps \cup {"raised"} /\ ~warmed_up')
              => (prev_oi' = EmptyMap /\ alerts' = <<>>)
        /\ (~warmed_up /\ warmed_up') => op' \in CommitOps
        /\ (warmed_up /\ ~warmed_up') => did_reset' ]_vars

\* The first market-hours run of the second date, after a first date that
\* had its own: it reset, failed to scan, and ended not warmed up with
\* nothing stored.
C18_Witness ==
    /\ op \in FailOps
    /\ did_reset
    /\ today = 2
    /\ invoked.open = {1, 2}
    /\ ~warmed_up
    /\ prev_oi = EmptyMap
    /\ alerts = <<>>

\* C15: at most one script run has a request to the provider in flight.
InFlight == { r \in Runs : api.pc[r][2] = "request" }

C15_ProviderCallsSerialized == Cardinality(InFlight) <= 1

====
